---- MODULE Spec2Model ----
(***************************************************************************)
(* Model of pkg/opencomposition.go (kedge): the synthesis of Kubernetes    *)
(* objects (Deployment, Service, PersistentVolumeClaims) from one App      *)
(* descriptor by CreateK8sObjects, and the emission loop of Convert.       *)
(*                                                                         *)
(* A Go map is modelled as [isNil, kv]: a nil map and an empty non-nil map *)
(* are different values, as they are for the test app.Labels == nil.  A    *)
(* pointer that may be nil is a record with an isNil field.                *)
(***************************************************************************)
EXTENDS Integers, Sequences, FiniteSets, TLC

VARIABLES app, svc, objects, err, runs, pc, emitted

vars == <<app, svc, objects, err, runs, pc, emitted>>

----------------------------------------------------------------------------
(* Bounds of the explored descriptors *)

\* containers per descriptor
MaxContainers == 2
\* container ports per descriptor, over all containers
MaxPorts == 2
\* volume mounts per descriptor, over all containers
MaxMounts == 2
\* entries of persistentVolumes in the descriptor as read
MaxPV == 2
\* successive calls of CreateK8sObjects on one descriptor
MaxRuns == 2

AppNames == {"web"}
PortNums == {80, 8080}
MountNames == {"data", "logs"}
\* declared sizes: one that parses and one that does not
Sizes == {"10Gi", "1x"}

BSeq(S, n) == UNION {[1..k -> S] : k \in 0..n}

----------------------------------------------------------------------------
(* Values *)

NilMap == [isNil |-> TRUE, kv |-> {}]
EmptyMap == [isNil |-> FALSE, kv |-> {}]

NilService == [kind |-> "Service", isNil |-> TRUE]

\* resource.ParseQuantity on the size strings that occur: a decimal number
\* followed by a binary suffix; the value is kept in Mi
ParseQuantity(s) ==
    CASE s = "100Mi" -> [ok |-> TRUE, mi |-> 100]
      [] s = "10Gi" -> [ok |-> TRUE, mi |-> 10 * 1024]
      [] OTHER -> [ok |-> FALSE, mi |-> 0]

Digit(d) ==
    CASE d = 0 -> "0" [] d = 1 -> "1" [] d = 2 -> "2" [] d = 3 -> "3"
      [] d = 4 -> "4" [] d = 5 -> "5" [] d = 6 -> "6" [] d = 7 -> "7"
      [] d = 8 -> "8" [] d = 9 -> "9"

RECURSIVE FormatInt(_)
\* the verb %d of fmt.Sprintf
FormatInt(n) ==
    IF n < 0 THEN "-" \o FormatInt(0 - n)
    ELSE IF n < 10 THEN Digit(n)
    ELSE FormatInt(n \div 10) \o Digit(n % 10)

----------------------------------------------------------------------------
(* The helpers of CreateK8sObjects *)

getLabels(a) == [isNil |-> FALSE, kv |-> {<<"app", a.Name>>}]

ensureLabels(a) ==
    IF a.Labels = NilMap THEN [a EXCEPT !.Labels = getLabels(a)] ELSE a

initService(a) ==
    [kind |-> "Service", isNil |-> FALSE, Name |-> a.Name, Labels |-> a.Labels,
     Selector |-> a.Labels, Type |-> "", Ports |-> <<>>]

RECURSIVE FlattenPorts(_)
FlattenPorts(cs) ==
    IF cs = <<>> THEN <<>> ELSE Head(cs).Ports \o FlattenPorts(Tail(cs))

allPortsFirstOnly(a) ==
    IF a.Containers = <<>> THEN <<>> ELSE Head(a.Containers).Ports

allPorts(a) == FlattenPorts(a.Containers)

serviceTypeInternal(a) == ""

serviceType(a) == IF a.Expose THEN "LoadBalancer" ELSE ""

servicePort(p) ==
    [Name |-> "port-" \o FormatInt(p), Port |-> p,
     TargetPort |-> [Type |-> "Int", IntVal |-> p]]

buildService(a) ==
    LET ports == allPorts(a) IN
    IF Len(ports) > 0
    THEN [initService(a) EXCEPT
            !.Type = serviceType(a),
            !.Ports = [i \in 1..Len(ports) |-> servicePort(ports[i])]]
    ELSE NilService

createDeployment(a) ==
    [kind |-> "Deployment", isNil |-> FALSE, Name |-> a.Name, Labels |-> a.Labels,
     Replicas |-> a.Replicas,
     Template |-> [Name |-> a.Name, Labels |-> a.Labels,
                   Spec |-> [Containers |-> a.Containers, Volumes |-> a.Volumes]]]

isVolumeDefinedNever(a, name) == FALSE

isVolumeDefinedFirstOnly(a, name) ==
    /\ a.PersistentVolumes # <<>>
    /\ name = a.PersistentVolumes[1].Name

isVolumeDefined(a, name) ==
    \E i \in 1..Len(a.PersistentVolumes) : name = a.PersistentVolumes[i].Name

\* the index as Go counts it, from 0, and -1 when there is none
searchVolumeIndex(a, name) ==
    IF \E i \in 1..Len(a.PersistentVolumes) : name = a.PersistentVolumes[i].Name
    THEN (CHOOSE i \in 1..Len(a.PersistentVolumes) :
            /\ name = a.PersistentVolumes[i].Name
            /\ \A j \in 1..(i - 1) : name # a.PersistentVolumes[j].Name) - 1
    ELSE 0 - 1

NilPVC == [kind |-> "PersistentVolumeClaim", isNil |-> TRUE]

newPVC(name, mi) ==
    [kind |-> "PersistentVolumeClaim", isNil |-> FALSE, Name |-> name,
     Labels |-> NilMap, Storage |-> mi, AccessModes |-> <<"ReadWriteOnce">>]

createPVCUnchecked(v) ==
    [err |-> FALSE, pvc |-> newPVC(v.Name, ParseQuantity(v.Size).mi)]

createPVC(v) ==
    LET size == ParseQuantity(v.Size) IN
    IF ~size.ok THEN [err |-> TRUE, pvc |-> NilPVC]
    ELSE [err |-> FALSE, pvc |-> newPVC(v.Name, size.mi)]

podVolume(name) == [Name |-> name, ClaimName |-> name]

defaultVolumeGi(name) == [Name |-> name, Size |-> "10Gi"]

defaultVolume(name) == [Name |-> name, Size |-> "100Mi"]

RECURSIVE FlattenMounts(_)
\* the order in which the nested loops visit the volume mounts
FlattenMounts(cs) ==
    IF cs = <<>> THEN <<>> ELSE Head(cs).VolumeMounts \o FlattenMounts(Tail(cs))

AllMounts(a) == FlattenMounts(a.Containers)

\* one pass of the inner loop body for the mount named name
visitMount(st, name) ==
    LET a1 == [st.app EXCEPT !.Volumes = Append(@, podVolume(name))] IN
    IF isVolumeDefined(a1, name)
    THEN LET i == searchVolumeIndex(a1, name)
             r == createPVC(a1.PersistentVolumes[i + 1])
         IN IF r.err THEN [app |-> a1, pvcs |-> st.pvcs, err |-> TRUE]
            ELSE [app |-> a1, pvcs |-> Append(st.pvcs, r.pvc), err |-> FALSE]
    ELSE LET v == defaultVolume(name)
             a2 == [a1 EXCEPT !.PersistentVolumes = Append(@, v)]
             r == createPVC(v)
         IN IF r.err THEN [app |-> a2, pvcs |-> st.pvcs, err |-> TRUE]
            ELSE [app |-> a2, pvcs |-> Append(st.pvcs, r.pvc), err |-> FALSE]

RECURSIVE volumeLoop(_, _)
\* the loops over containers and mounts; an error returns at once
volumeLoop(st, mounts) ==
    IF mounts = <<>> \/ st.err THEN st
    ELSE volumeLoop(visitMount(st, Head(mounts)), Tail(mounts))

defaultContainerName(a) ==
    IF Len(a.Containers) = 1 /\ a.Containers[1].Name = ""
    THEN [a EXCEPT !.Containers[1].Name = a.Name]
    ELSE a

assembleClaimsFirst(deployment, s, pvcs) == <<deployment>> \o pvcs \o <<s>>

assemble(deployment, s, pvcs) == <<deployment>> \o <<s>> \o pvcs

\* the whole function: the descriptor as it leaves it, the local svc, and
\* the two results
CreateK8sObjects(a) ==
    LET a1 == ensureLabels(a)
        s == buildService(a1)
        st == volumeLoop([app |-> a1, pvcs |-> <<>>, err |-> FALSE], AllMounts(a1))
    IN IF st.err
       THEN [app |-> st.app, svc |-> s, objects |-> <<>>, err |-> TRUE]
       ELSE LET a2 == defaultContainerName(st.app)
            IN [app |-> a2, svc |-> s,
                objects |-> assemble(createDeployment(a2), s, st.pvcs),
                err |-> FALSE]

----------------------------------------------------------------------------
(* The descriptors explored *)

TotalPorts(cs) == Len(FlattenPorts(cs))
TotalMounts(cs) == Len(FlattenMounts(cs))

\* containers that declare ports only
NetContainers(cname) ==
    {cs \in BSeq([Name : {cname}, Ports : BSeq(PortNums, MaxPorts),
                  VolumeMounts : {<<>>}], MaxContainers) :
        TotalPorts(cs) <= MaxPorts}

\* containers that declare volume mounts, the first one a port or none
VolContainers ==
    {cs \in BSeq([Name : {""}, Ports : {<<>>, <<8080>>},
                  VolumeMounts : BSeq(MountNames, MaxMounts)], MaxContainers) :
        /\ TotalMounts(cs) <= MaxMounts
        /\ \A i \in 2..Len(cs) : cs[i].Ports = <<>>}

LabelChoices == {NilMap, EmptyMap, [isNil |-> FALSE, kv |-> {<<"tier", "fe">>}]}

NetApps ==
    {[Name |-> n, Replicas |-> "unset", Expose |-> e, Labels |-> l,
      PersistentVolumes |-> <<>>, Containers |-> cs, Volumes |-> <<>>] :
        n \in AppNames, e \in BOOLEAN, l \in LabelChoices,
        cs \in NetContainers("") \cup NetContainers("main")}

VolApps ==
    {[Name |-> n, Replicas |-> "unset", Expose |-> e, Labels |-> l,
      PersistentVolumes |-> pv, Containers |-> cs, Volumes |-> <<>>] :
        n \in AppNames, e \in BOOLEAN, l \in {NilMap, EmptyMap},
        pv \in BSeq([Name : MountNames, Size : Sizes], MaxPV),
        cs \in VolContainers}

----------------------------------------------------------------------------
(* The state machine *)

Init ==
    /\ app \in NetApps \cup VolApps
    /\ svc = NilService
    /\ objects = <<>>
    /\ err = FALSE
    /\ runs = 0
    /\ pc = "parsed"
    /\ emitted = <<>>

\* one call of CreateK8sObjects(&app)
Run ==
    /\ pc \in {"parsed", "created"}
    /\ runs < MaxRuns
    /\ LET r == CreateK8sObjects(app) IN
        /\ app' = r.app
        /\ svc' = r.svc
        /\ objects' = r.objects
        /\ err' = r.err
    /\ runs' = runs + 1
    /\ pc' = "created"
    /\ UNCHANGED emitted

groupVersion(kind) == IF kind = "Deployment" THEN "extensions/v1beta1" ELSE "v1"

document(o) == [apiVersion |-> groupVersion(o.kind), kind |-> o.kind, object |-> o]

\* the loop of Convert over the returned objects: each object is given its
\* kind, marshalled and written; a failure at an object returns, leaving the
\* documents written so far
WriteObjects ==
    /\ pc = "created"
    /\ runs = 1
    /\ \E n \in 0..Len(objects) :
        emitted' = [i \in 1..n |-> document(objects[i])]
    /\ pc' = "written"
    /\ UNCHANGED <<app, svc, objects, err, runs>>

Next == Run \/ WriteObjects

Spec == Init /\ [][Next]_vars

----------------------------------------------------------------------------
(* Vocabulary of the properties *)

\* a step that is one call of CreateK8sObjects
IsRunStep == runs' = runs + 1

Ran == pc # "parsed"

DeclaredPorts(a) == FlattenPorts(a.Containers)

VisitedMounts(a) == FlattenMounts(a.Containers)

IsClaim(o) == o.kind = "PersistentVolumeClaim" /\ ~o.isNil

IsService(o) == o.kind = "Service" /\ ~o.isNil

ClaimsOf(objs) == SelectSeq(objs, IsClaim)

DefaultLabels(name) == [isNil |-> FALSE, kv |-> {<<"app", name>>}]

Declares(pvs, name) == \E i \in 1..Len(pvs) : pvs[i].Name = name

FirstDeclared(pvs, name) ==
    pvs[CHOOSE i \in 1..Len(pvs) :
            /\ pvs[i].Name = name
            /\ \A j \in 1..Len(pvs) : pvs[j].Name = name => i <= j]

\* the quantities written out, in Mi
QuantityMi(s) == CASE s = "100Mi" -> 100 [] s = "10Gi" -> 10240

Parses(s) == s \in {"100Mi", "10Gi"}

PortNameOf(n) == CASE n = 80 -> "port-80" [] n = 8080 -> "port-8080"

CountNamed(seq, name) == Cardinality({i \in 1..Len(seq) : seq[i].Name = name})

RECURSIVE Undeclared(_, _)
\* the mount names no entry of pvs declares, each once, by first occurrence
Undeclared(ms, pvs) ==
    IF ms = <<>> THEN <<>>
    ELSE IF Declares(pvs, Head(ms)) THEN Undeclared(Tail(ms), pvs)
    ELSE <<[Name |-> Head(ms), Size |-> "100Mi"]>>
            \o Undeclared(Tail(ms), Append(pvs, [Name |-> Head(ms), Size |-> "100Mi"]))

FullyDeclared(a) ==
    \A i \in 1..Len(VisitedMounts(a)) : Declares(a.PersistentVolumes, VisitedMounts(a)[i])

----------------------------------------------------------------------------
(* C1 *)

\* C1: when no container declares a port, a successful call returns no
\* Service entry of any sort, not even a null one: the output is the workload
\* followed by the claims, 1 + number of claims long.
C1_NoExposureEntry ==
    (Ran /\ ~err /\ DeclaredPorts(app) = <<>>) =>
        /\ \A i \in 1..Len(objects) : objects[i].kind # "Service"
        /\ Len(objects) = 1 + Len(ClaimsOf(objects))

(* C2 *)

\* C2: when the labels of the descriptor are empty (unset, or an empty
\* mapping), after a successful call the labels of the workload, of its pod
\* template, of the exposure resource when there is one, of every claim, and
\* the exposure selector all equal {app: name}.
C2_DefaultLabelsEverywhere ==
    [][(IsRunStep /\ app.Labels.kv = {} /\ ~err') =>
        /\ objects'[1].Labels = DefaultLabels(app.Name)
        /\ objects'[1].Template.Labels = DefaultLabels(app.Name)
        /\ ~svc'.isNil => /\ svc'.Labels = DefaultLabels(app.Name)
                          /\ svc'.Selector = DefaultLabels(app.Name)
        /\ \A i \in 1..Len(objects') :
            IsClaim(objects'[i]) => objects'[i].Labels = DefaultLabels(app.Name)]_vars

(* C3 *)

\* C3: after one successful call, every mount name has exactly one entry in
\* the pod volume list of the workload and exactly one claim in the output,
\* however many mounts use the name.
C3_OneVolumeOneClaimPerName ==
    (runs = 1 /\ ~err) =>
        \A i \in 1..Len(VisitedMounts(app)) :
            LET m == VisitedMounts(app)[i] IN
            /\ CountNamed(objects[1].Template.Spec.Volumes, m) = 1
            /\ CountNamed(ClaimsOf(objects), m) = 1

(* C4 *)

\* the size a call starting from a would parse for some mount does not parse
UsesBadSize(a) ==
    \E i \in 1..Len(VisitedMounts(a)) :
        /\ Declares(a.PersistentVolumes, VisitedMounts(a)[i])
        /\ ~Parses(FirstDeclared(a.PersistentVolumes, VisitedMounts(a)[i]).Size)

\* C4: a call that meets a volume size that does not parse returns an error
\* and an empty sequence, whatever was built before the failing mount, and
\* nothing of that descriptor is written out.
C4_ErrorMeansNoOutput ==
    [][/\ (IsRunStep /\ UsesBadSize(app)) => (err' /\ objects' = <<>>)
       /\ err => emitted' = <<>>]_vars

C4_Witness ==
    /\ pc = "written"
    /\ err
    /\ Len(app.Volumes) = 2
    /\ ~svc.isNil
    /\ objects = <<>>
    /\ emitted = <<>>

(* C5 *)

\* C5: every claim returned is named after its mount, is ReadWriteOnce, and
\* requests the size of the first persistentVolumes entry of that name held
\* before the call, or 100Mi when there was none.
C5_ClaimFields ==
    [][(IsRunStep /\ ~err') =>
        LET cl == ClaimsOf(objects')
            ms == VisitedMounts(app)
        IN /\ Len(cl) = Len(ms)
           /\ \A i \in 1..Len(cl) :
                /\ cl[i].Name = ms[i]
                /\ cl[i].AccessModes = <<"ReadWriteOnce">>
                /\ cl[i].Storage =
                     IF Declares(app.PersistentVolumes, ms[i])
                     THEN QuantityMi(FirstDeclared(app.PersistentVolumes, ms[i]).Size)
                     ELSE QuantityMi("100Mi")]_vars

C5_Witness ==
    /\ runs = 1
    /\ ~err
    /\ app.PersistentVolumes =
         <<[Name |-> "data", Size |-> "10Gi"], [Name |-> "data", Size |-> "1x"],
           [Name |-> "logs", Size |-> "100Mi"]>>
    /\ Len(ClaimsOf(objects)) = 2
    /\ ClaimsOf(objects)[1].Name = "data" /\ ClaimsOf(objects)[1].Storage = 10240
    /\ ClaimsOf(objects)[2].Name = "logs" /\ ClaimsOf(objects)[2].Storage = 100

(* C6 *)

\* C6: a call builds a Service exactly when some container declares a port;
\* its ports are the declared container ports in container order then port
\* order, duplicates kept, each named "port-n" with port and target port n;
\* a successful call returns that Service second.
C6_ServiceIffPorts ==
    Ran =>
        LET ports == DeclaredPorts(app) IN
        /\ svc.isNil <=> ports = <<>>
        /\ ~svc.isNil =>
            /\ Len(svc.Ports) = Len(ports)
            /\ \A i \in 1..Len(ports) :
                /\ svc.Ports[i].Name = PortNameOf(ports[i])
                /\ svc.Ports[i].Port = ports[i]
                /\ svc.Ports[i].TargetPort.IntVal = ports[i]
        /\ ~err => (\E i \in 1..Len(objects) : IsService(objects[i])) <=> ports # <<>>
        /\ (~err /\ ~svc.isNil) => objects[2] = svc

C6_Witness ==
    /\ Ran
    /\ ~err
    /\ Len(app.Containers) = 2
    /\ IsService(objects[2])
    /\ Len(objects[2].Ports) = 2
    /\ objects[2].Ports[1].Name = "port-8080"
    /\ objects[2].Ports[2].Name = "port-8080"

(* C7 *)

\* C7: the call on the descriptor with the expose flag flipped fails or
\* succeeds alike and returns the same objects, but for the type of the
\* Service: LoadBalancer with expose, unset without.
C7_ExposeOnlySetsType ==
    [][IsRunStep =>
        LET other == CreateK8sObjects([app EXCEPT !.Expose = ~app.Expose])
            type(e) == IF e THEN "LoadBalancer" ELSE ""
        IN /\ err' = other.err
           /\ Len(objects') = Len(other.objects)
           /\ svc'.isNil = other.svc.isNil
           /\ ~svc'.isNil =>
                /\ svc'.Type = type(app.Expose)
                /\ other.svc.Type = type(~app.Expose)
                /\ [svc' EXCEPT !.Type = ""] = [other.svc EXCEPT !.Type = ""]
           /\ \A i \in 1..Len(objects') :
                IF IsService(objects'[i])
                THEN objects'[i] = svc' /\ other.objects[i] = other.svc
                ELSE objects'[i] = other.objects[i]]_vars

C7_Witness ==
    /\ runs = 1
    /\ ~err
    /\ app.Expose
    /\ IsService(objects[2])
    /\ objects[2].Type = "LoadBalancer"
    /\ Len(ClaimsOf(objects)) = 2

(* C8 *)

C9_VolumesAppended ==
    [][(IsRunStep /\ ~err') =>
        app'.PersistentVolumes =
            app.PersistentVolumes \o Undeclared(VisitedMounts(app), app.PersistentVolumes)]_vars

C9_Witness ==
    /\ runs = 1
    /\ ~err
    /\ VisitedMounts(app) = <<"logs", "logs">>
    /\ app.PersistentVolumes =
         <<[Name |-> "data", Size |-> "10Gi"], [Name |-> "logs", Size |-> "100Mi"]>>

(* C10 *)

\* C10: a successful call returns the workload first, the Service second
\* when one was built, and the claims last, one per mount visited and named
\* as the mounts are, container by container and mount by mount.
C10_OutputOrder ==
    (Ran /\ ~err) =>
        LET ms == VisitedMounts(app)
            first == Len(objects) - Len(ms)
        IN /\ first >= 1
           /\ objects[1].kind = "Deployment"
           /\ ~svc.isNil => (first = 2 /\ objects[2] = svc)
           /\ \A i \in 1..first : ~IsClaim(objects[i])
           /\ \A i \in 1..Len(ms) :
                IsClaim(objects[first + i]) /\ objects[first + i].Name = ms[i]

C10_Witness ==
    /\ Ran
    /\ ~err
    /\ Len(objects) = 4
    /\ IsService(objects[2])
    /\ IsClaim(objects[3]) /\ objects[3].Name = "logs"
    /\ IsClaim(objects[4]) /\ objects[4].Name = "data"

====
